---- MODULE Spec2Model ----
(***************************************************************************)
(* Aggregation of the Montreal 2025 election results table into the        *)
(* per-office, per-section index used by the map pages.  Three entry       *)
(* points of the repository read the same kind of table:                   *)
(*   genmap3.py       build_results_index  (index poste -> section)        *)
(*   generate_map.py  build_results_index  (index (dist,bureau) -> poste)  *)
(*   v1-1/gen_mairie.py  load_results      (winner per district, poste)    *)
(* Text is modelled as a sequence of one-character strings so that the     *)
(* character-level conversions of the code are computed, not assumed.      *)
(* A missing value (None / NaN) is the empty tuple None, a present value   *)
(* v is the one-element tuple Some(v).                                     *)
(***************************************************************************)
EXTENDS Integers, Sequences, FiniteSets, TLC

\* ---------------------------------------------------------------- bounds
MaxRows == 3
MaxRowsPct == 2
MaxLen == 3
MaxPageRows == 2
MaxCellLen == 6

\* ------------------------------------------------------- optional values
None == <<>>
Some(v) == <<v>>

\* ------------------------------------------------------------------ text
Digit == {"0", "1", "2", "3", "4", "5", "6", "7", "8", "9"}

DigitChars == <<"0", "1", "2", "3", "4", "5", "6", "7", "8", "9">>

DigitVal(c) == CHOOSE n \in 0..9 : DigitChars[n + 1] = c

IsDigits(s) == Len(s) > 0 /\ \A i \in 1..Len(s) : s[i] \in Digit

RECURSIVE StrToNat(_)
StrToNat(s) ==
  IF s = <<>> THEN 0
  ELSE 10 * StrToNat(SubSeq(s, 1, Len(s) - 1)) + DigitVal(s[Len(s)])

RECURSIVE NatToStr(_)
NatToStr(n) ==
  IF n < 10 THEN <<DigitChars[n + 1]>>
  ELSE NatToStr(n \div 10) \o <<DigitChars[(n % 10) + 1]>>

\* str.replace(a, b) for one-character a and b
Replace(s, a, b) == [i \in 1..Len(s) |-> IF s[i] = a THEN b ELSE s[i]]

\* str.zfill(w): pad with "0" on the left up to width w
RECURSIVE zfill(_, _)
zfill(s, w) == IF Len(s) >= w THEN s ELSE zfill(<<"0">> \o s, w)

\* str.strip(): drop leading and trailing blanks
RECURSIVE strip(_)
strip(s) ==
  IF s = <<>> THEN s
  ELSE IF s[1] = " " THEN strip(Tail(s))
  ELSE IF s[Len(s)] = " " THEN strip(SubSeq(s, 1, Len(s) - 1))
  ELSE s

NAN_STR == <<"n", "a", "n">>

\* ------------------------------------------------ reading a CSV cell
\* Cell texts that pandas.read_csv turns into NaN (its default na_values).
NA_VALUES == { <<>>, <<"N", "/", "A">>, <<"N", "A">>, NAN_STR }

IsNA(cell) == cell \in NA_VALUES

\* position of the decimal point in a cell, 0 when there is none
DotPos(s) == IF \E i \in 1..Len(s) : s[i] = "."
             THEN CHOOSE i \in 1..Len(s) : s[i] = "." /\ \A j \in 1..(i - 1) : s[j] # "."
             ELSE 0

\* an integer literal, or a decimal literal with one or two decimals
IsInt(s) == IsDigits(s)

IsNumber(s) ==
  \/ IsInt(s)
  \/ /\ DotPos(s) > 1
     /\ IsDigits(SubSeq(s, 1, DotPos(s) - 1))
     /\ IsDigits(SubSeq(s, DotPos(s) + 1, Len(s)))
     /\ Len(s) - DotPos(s) <= 2

\* value of a numeric cell, in hundredths
Cents(s) ==
  IF IsInt(s) THEN 100 * StrToNat(s)
  ELSE LET ip == SubSeq(s, 1, DotPos(s) - 1)
           fp == SubSeq(s, DotPos(s) + 1, Len(s))
       IN 100 * StrToNat(ip) + (IF Len(fp) = 1 THEN 10 * StrToNat(fp) ELSE StrToNat(fp))

\* int(x) of a number held in hundredths: truncation
IntOf(c) == c \div 100

\* str(float): shortest form, always with a fractional part
FloatStr(c) ==
  NatToStr(c \div 100) \o <<".">> \o
    (IF c % 10 = 0 THEN <<DigitChars[((c % 100) \div 10) + 1]>>
     ELSE <<DigitChars[((c % 100) \div 10) + 1], DigitChars[(c % 10) + 1]>>)

\* pd.to_numeric(cell, errors="coerce"): hundredths, or NaN
to_numeric(cell) == IF IsNumber(cell) THEN Some(Cents(cell)) ELSE None

\* dtype read_csv infers for a column given without dtype
ColDtype(cells) ==
  IF \E c \in cells : ~IsNA(c) /\ ~IsNumber(c) THEN "object"
  ELSE IF \E c \in cells : IsNA(c) \/ ~IsInt(c) THEN "float64"
  ELSE "int64"

\* Series.astype(str) applied to one cell of a column of the given dtype
astype_str(dtype, cell) ==
  IF IsNA(cell) THEN NAN_STR
  ELSE IF dtype = "object" THEN cell
  ELSE IF dtype = "int64" THEN NatToStr(IntOf(Cents(cell)))
  ELSE FloatStr(Cents(cell))

\* ------------------------------------------------------------- the table
\* A row of the results CSV, every cell as its text.  District is the
\* district id column (ElectoralDistrictID in genmap3.py and gen_mairie.py,
\* DistrictID in generate_map.py).
Rows(tbl) == 1..Len(tbl)

Column(tbl, f) == {tbl[i][f] : i \in Rows(tbl)}

IndexSeq(n) == [i \in 1..n |-> i]

SetMax(S) == CHOOSE m \in S : \A x \in S : x <= m

\* DataFrame.sort_values(by, ascending=False) with the default kind
\* "quicksort", which is not stable: the rows of S in any arrangement that
\* is descending in v, equal values in any relative order.
sort_values_desc(S, v) ==
  { p \in [1..Cardinality(S) -> S] :
      /\ \A a, b \in 1..Cardinality(S) : a # b => p[a] # p[b]
      /\ \A a \in 1..(Cardinality(S) - 1) : v[p[a]] >= v[p[a + 1]] }

\* normalize_str: "" for None/NaN, else the text stripped
normalize_str(cell) == IF IsNA(cell) THEN <<>> ELSE strip(cell)

\* a quotient held exactly (the code holds it as a float)
Frac(n, d) == [num |-> n, den |-> d]

\* --------------------------------------- genmap3.py: build_results_index
g3_PosteNorm(tbl, i) ==
  Replace(astype_str(ColDtype(Column(tbl, "Poste")), tbl[i].Poste), ",", ".")

\* the same line for a Series of str holding keys it produced
g3_PosteNorm_str(s) == Replace(astype_str("object", s), ",", ".")

\* g3_Raises had the first row of the frame been read before grouping:
\* an empty frame raises as well
g3_Raises_on_empty(tbl) ==
  tbl = <<>> \/ \E i \in Rows(tbl) : to_numeric(tbl[i].District) = None

\* pd.to_numeric(ElectoralDistrictID, errors="coerce").astype(int) raises
\* when a cell was coerced to NaN
g3_Raises(tbl) == \E i \in Rows(tbl) : to_numeric(tbl[i].District) = None

g3_ElectoralDistrictID(tbl, i) == IntOf(to_numeric(tbl[i].District)[1])

g3_DistCode(tbl, i) == zfill(NatToStr(g3_ElectoralDistrictID(tbl, i)), 3)

g3_BureauCell(tbl, i) == astype_str(ColDtype(Column(tbl, "Bureau")), tbl[i].Bureau)

g3_BureauStr(tbl, i) == zfill(g3_BureauCell(tbl, i), 3)

\* the same line for a Series of str holding codes it produced
g3_BureauStr_str(s) == zfill(s, 3)

g3_SectionCode(tbl, i) == g3_DistCode(tbl, i) \o <<"-">> \o g3_BureauStr(tbl, i)

\* pd.to_numeric(Votes, errors="coerce").fillna(0), in hundredths
g3_Votes(tbl, i) ==
  IF to_numeric(tbl[i].Votes) = None THEN 0 ELSE to_numeric(tbl[i].Votes)[1]

g3_Key(tbl, i) == <<g3_PosteNorm(tbl, i), g3_SectionCode(tbl, i)>>

g3_Keys(tbl) == {g3_Key(tbl, i) : i \in Rows(tbl)}

\* df.groupby(["PosteNorm", "SectionCode"]): the rows of one group, in
\* table order
g3_Group(tbl, k) == SelectSeq(IndexSeq(Len(tbl)), LAMBDA i : g3_Key(tbl, i) = k)

SeqRange(s) == {s[j] : j \in 1..Len(s)}

\* grp[col].max() of a totals column: None when the column is absent or
\* holds no number in the group
g3_GroupMax(tbl, hdr, k, col) ==
  LET vals == { to_numeric(tbl[i][col])[1] :
                  i \in {j \in SeqRange(g3_Group(tbl, k)) : to_numeric(tbl[j][col]) # None} }
  IN IF col \notin hdr \/ vals = {} THEN None ELSE Some(SetMax(vals))

g3_total_for_pct(total_valid, total_votes) ==
  IF total_valid # None /\ total_valid[1] > 0 THEN total_valid
  ELSE IF total_votes # None /\ total_votes[1] > 0 THEN total_votes
  ELSE None

g3_int_or_None(x) == IF x # None THEN Some(IntOf(x[1])) ELSE None

g3_BreakdownRow(tbl, i, total_for_pct) ==
  LET votes == IntOf(g3_Votes(tbl, i))
  IN [ candidat |-> normalize_str(tbl[i].Candidat),
       parti    |-> normalize_str(tbl[i].Parti),
       votes    |-> votes,
       pct      |-> IF total_for_pct # None /\ total_for_pct[1] > 0
                    THEN Some(Frac(votes * 100 * 100, total_for_pct[1]))
                    ELSE None ]

g3_Breakdown(tbl, k, total_for_pct) ==
  [ j \in 1..Len(g3_Group(tbl, k)) |->
      g3_BreakdownRow(tbl, g3_Group(tbl, k)[j], total_for_pct) ]

\* the rows grp.sort_values("Votes", ascending=False).iloc[0] can be
g3_WinnerRows(tbl, k) ==
  { p[1] : p \in sort_values_desc(SeqRange(g3_Group(tbl, k)),
                                      [i \in Rows(tbl) |-> g3_Votes(tbl, i)]) }

\* the record of one group, given its winner row
g3_Record(tbl, hdr, k, winner_row) ==
  LET total_valid    == g3_GroupMax(tbl, hdr, k, "TotalValidVotes")
      total_rejected == g3_GroupMax(tbl, hdr, k, "TotalRejectedVotes")
      total_votes    == g3_GroupMax(tbl, hdr, k, "TotalVotes")
      first          == g3_Group(tbl, k)[1]
  IN [ winner_candidate |-> normalize_str(tbl[winner_row].Candidat),
       winner_party     |-> normalize_str(tbl[winner_row].Parti),
       winner_votes     |-> IntOf(g3_Votes(tbl, winner_row)),
       total_valid      |-> g3_int_or_None(total_valid),
       total_rejected   |-> g3_int_or_None(total_rejected),
       total_votes      |-> g3_int_or_None(total_votes),
       district_id      |-> NatToStr(g3_ElectoralDistrictID(tbl, first)),
       bureau           |-> g3_BureauCell(tbl, first),
       breakdown        |-> g3_Breakdown(tbl, k, g3_total_for_pct(total_valid, total_votes)) ]

\* every index build_results_index can return for the table: one per
\* choice of the winner row of each group
g3_build_results_index(tbl, hdr) ==
  { [k \in g3_Keys(tbl) |-> g3_Record(tbl, hdr, k, w[k])] :
      w \in { c \in [g3_Keys(tbl) -> Rows(tbl)] :
                \A k \in g3_Keys(tbl) : c[k] \in g3_WinnerRows(tbl, k) } }

\* ------------------------------------ generate_map.py: build_results_index
\* s.replace(/\D+/g, '') of JavaScript, where \D is every character but
\* the ASCII digits
RECURSIVE OnlyDigits(_)
OnlyDigits(s) ==
  IF s = <<>> THEN <<>>
  ELSE (IF s[1] \in Digit THEN <<s[1]>> ELSE <<>>) \o OnlyDigits(Tail(s))

\* a decimal digit that is not ASCII: ARABIC-INDIC DIGIT THREE, one character
ARABIC_THREE == "U+0663"

\* the characters \d matches in a str pattern of Python: every Unicode
\* decimal digit
UnicodeDigit == Digit \cup {ARABIC_THREE}

\* re.sub(r'\D+', '', s) of Python
RECURSIVE re_sub_D(_)
re_sub_D(s) ==
  IF s = <<>> THEN <<>>
  ELSE (IF s[1] \in UnicodeDigit THEN <<s[1]>> ELSE <<>>) \o re_sub_D(Tail(s))

\* str.lstrip('0')
RECURSIVE lstrip0(_)
lstrip0(s) == IF s # <<>> /\ s[1] = "0" THEN lstrip0(Tail(s)) ELSE s

\* norm_digits without the lstrip('0')
norm_digits_keep_zeros(x) == re_sub_D(x)

norm_digits(x) == lstrip0(re_sub_D(x))

norm_bureau3(x) ==
  LET s == re_sub_D(x)
  IN zfill(IF Len(s) > 3 THEN SubSeq(s, Len(s) - 2, Len(s)) ELSE s, 3)

NA_STR == <<"<", "N", "A", ">">>

\* read_csv(dtype={"DistrictID": "Int64", "Bureau": str, "Poste": float})
\* raises on a DistrictID that is not an integer and on a Poste that is not
\* a number; missing cells are read as NA in both
gm_ReadRaises(tbl) ==
  \E i \in Rows(tbl) :
     \/ ~IsNA(tbl[i].District) /\ ~IsInt(tbl[i].District)
     \/ ~IsNA(tbl[i].Poste) /\ ~IsNumber(tbl[i].Poste)

\* str(x) of a DistrictID cell read as Int64, of a Bureau cell read as str
gm_DistrictStr(cell) ==
  IF IsNA(cell) THEN NA_STR ELSE IF IsInt(cell) THEN NatToStr(StrToNat(cell)) ELSE cell

gm_BureauStr(cell) == IF IsNA(cell) THEN NAN_STR ELSE cell

gm_DistrictID_norm(tbl, i) == norm_digits(gm_DistrictStr(tbl[i].District))

gm_Bureau_norm(tbl, i) == norm_bureau3(gm_BureauStr(tbl[i].Bureau))

\* the Poste cell read as float, in hundredths; None is NaN
gm_Poste(tbl, i) == to_numeric(tbl[i].Poste)

\* df[df["Poste"].isin(only_poste)] when only_poste is given and not empty
gm_Kept(tbl, only) ==
  SelectSeq(IndexSeq(Len(tbl)),
            LAMBDA i : only = {} \/ (gm_Poste(tbl, i) # None /\ gm_Poste(tbl, i)[1] \in only))

gm_Key(tbl, i) == <<gm_DistrictID_norm(tbl, i), gm_Bureau_norm(tbl, i), gm_Poste(tbl, i)>>

\* gm_Keys as groupby would give them without dropna=False: rows whose Poste
\* is NaN form no group
gm_Keys_dropna(tbl, only) ==
  {gm_Key(tbl, i) : i \in {j \in SeqRange(gm_Kept(tbl, only)) : gm_Poste(tbl, j) # None}}

gm_Keys(tbl, only) == {gm_Key(tbl, i) : i \in SeqRange(gm_Kept(tbl, only))}

\* groupby([...], dropna=False): NaN keys form groups too
gm_Group(tbl, only, k) == SelectSeq(gm_Kept(tbl, only), LAMBDA i : gm_Key(tbl, i) = k)

\* int(cell) of a cell of a column read without dtype: None when int()
\* raises (NaN, or text that is not an integer literal)
gm_int(dtype, cell) ==
  IF dtype = "object" THEN (IF IsInt(cell) THEN Some(StrToNat(cell)) ELSE None)
  ELSE IF IsNA(cell) THEN None
  ELSE Some(IntOf(Cents(cell)))

gm_votes(tbl, i) == gm_int(ColDtype(Column(tbl, "Votes")), tbl[i].Votes)

RECURSIVE ConcatCells(_, _)
ConcatCells(tbl, g) ==
  IF g = <<>> THEN <<>> ELSE tbl[g[1]].Votes \o ConcatCells(tbl, Tail(g))

RECURSIVE SumCents(_, _)
SumCents(tbl, g) ==
  IF g = <<>> THEN 0
  ELSE (IF IsNA(tbl[g[1]].Votes) THEN 0 ELSE Cents(tbl[g[1]].Votes)) + SumCents(tbl, Tail(g))

\* int(g["Votes"].sum()): the sum skips NaN in a numeric column, and joins
\* the texts of an object column (raising on a NaN among them)
gm_votes_sum(tbl, g) ==
  IF ColDtype(Column(tbl, "Votes")) = "object"
  THEN (IF (\E j \in 1..Len(g) : IsNA(tbl[g[j]].Votes)) \/ ~IsInt(ConcatCells(tbl, g))
        THEN None ELSE Some(StrToNat(ConcatCells(tbl, g))))
  ELSE Some(IntOf(SumCents(tbl, g)))

gm_first(tbl, g, col) == gm_int(ColDtype(Column(tbl, col)), tbl[g[1]][col])

gm_total_valid(tbl, hdr, g) ==
  IF "TotalValidVotes" \in hdr THEN gm_first(tbl, g, "TotalValidVotes") ELSE gm_votes_sum(tbl, g)

gm_rejected(tbl, hdr, g) ==
  IF "TotalRejectedVotes" \in hdr THEN gm_first(tbl, g, "TotalRejectedVotes") ELSE Some(0)

gm_total(tbl, hdr, g) ==
  IF "TotalVotes" \in hdr THEN gm_first(tbl, g, "TotalVotes")
  ELSE IF gm_total_valid(tbl, hdr, g) = None \/ gm_rejected(tbl, hdr, g) = None THEN None
  ELSE Some(gm_total_valid(tbl, hdr, g)[1] + gm_rejected(tbl, hdr, g)[1])

\* round(n / d, 0) as Python rounds: to nearest, ties to even
RoundHalfEven(n, d) ==
  LET q == n \div d
      r == n % d
  IN IF 2 * r < d THEN q
     ELSE IF 2 * r > d THEN q + 1
     ELSE IF q % 2 = 0 THEN q ELSE q + 1

\* round(100.0 * votes / total_valid, 2) if total_valid > 0 else 0.0,
\* in hundredths of a percent point
gm_pct(votes, total_valid) ==
  IF total_valid > 0 THEN RoundHalfEven(100 * votes * 100, total_valid) ELSE 0

gm_Row(tbl, i, total_valid) ==
  [ nom   |-> IF IsNA(tbl[i].Candidat) THEN <<>> ELSE tbl[i].Candidat,
    parti |-> IF IsNA(tbl[i].Parti) THEN <<>> ELSE tbl[i].Parti,
    votes |-> gm_votes(tbl, i)[1],
    pct   |-> gm_pct(gm_votes(tbl, i)[1], total_valid) ]

\* list.sort(key=votes, reverse=True): stable, descending
RECURSIVE InsertDesc(_, _)
InsertDesc(sorted, x) ==
  IF sorted = <<>> THEN <<x>>
  ELSE IF sorted[1].votes >= x.votes THEN <<sorted[1]>> \o InsertDesc(Tail(sorted), x)
  ELSE <<x>> \o sorted

RECURSIVE sort_votes_desc(_)
sort_votes_desc(rows) ==
  IF rows = <<>> THEN <<>>
  ELSE InsertDesc(sort_votes_desc(SubSeq(rows, 1, Len(rows) - 1)), rows[Len(rows)])

\* pkey = str(int(p)) if float(p).is_integer() else str(p)
gm_pkey(p) ==
  IF p = None THEN NAN_STR
  ELSE IF p[1] % 100 = 0 THEN NatToStr(IntOf(p[1]))
  ELSE FloatStr(p[1])

\* the same line for a p that is a str holding a key it produced
\* (an integer literal, "nan", or a number that is not integral)
gm_pkey_str(p) == IF IsInt(p) THEN NatToStr(StrToNat(p)) ELSE p

\* a group makes the run raise when one of its int() conversions does
gm_GroupRaises(tbl, hdr, g) ==
  \/ gm_total_valid(tbl, hdr, g) = None
  \/ gm_rejected(tbl, hdr, g) = None
  \/ gm_total(tbl, hdr, g) = None
  \/ \E j \in 1..Len(g) : gm_votes(tbl, g[j]) = None

gm_Raises(tbl, hdr, only) ==
  \/ gm_ReadRaises(tbl)
  \/ \E k \in gm_Keys(tbl, only) : gm_GroupRaises(tbl, hdr, gm_Group(tbl, only, k))

gm_Record(tbl, hdr, g) ==
  [ total_valid |-> gm_total_valid(tbl, hdr, g)[1],
    rejected    |-> gm_rejected(tbl, hdr, g)[1],
    total       |-> gm_total(tbl, hdr, g)[1],
    rows        |-> sort_votes_desc([j \in 1..Len(g) |->
                                      gm_Row(tbl, g[j], gm_total_valid(tbl, hdr, g)[1])]) ]

\* results[(d, b)][pkey], as a function of the triple <<d, b, pkey>>
gm_IndexKey(k) == <<k[1], k[2], gm_pkey(k[3])>>

gm_build_results_index(tbl, hdr, only) ==
  [ ik \in {gm_IndexKey(k) : k \in gm_Keys(tbl, only)} |->
      gm_Record(tbl, hdr,
                gm_Group(tbl, only, CHOOSE k \in gm_Keys(tbl, only) : gm_IndexKey(k) = ik)) ]

\* --------------------------------------- v1-1/gen_mairie.py: load_results
lr_PosteNorm(tbl, i) ==
  Replace(astype_str(ColDtype(Column(tbl, "Poste")), tbl[i].Poste), ",", ".")

lr_Votes(tbl, i) ==
  IF to_numeric(tbl[i].Votes) = None THEN 0 ELSE to_numeric(tbl[i].Votes)[1]

lr_District(tbl, i) == astype_str(ColDtype(Column(tbl, "District")), tbl[i].District)

lr_Key(tbl, i) == <<lr_District(tbl, i), lr_PosteNorm(tbl, i)>>

lr_Keys(tbl) == {lr_Key(tbl, i) : i \in Rows(tbl)}

\* GroupBy.first() of one column: the first value that is not null among
\* the rows of the group, taken in the order of the sorted frame
lr_first(tbl, order, k, col) ==
  LET g == SelectSeq(order, LAMBDA i : lr_Key(tbl, i) = k /\ ~IsNA(tbl[i][col]))
  IN IF g = <<>> THEN None ELSE Some(tbl[g[1]][col])

lr_Winner(tbl, order, k) ==
  LET g == SelectSeq(order, LAMBDA i : lr_Key(tbl, i) = k)
  IN [ Candidat |-> lr_first(tbl, order, k, "Candidat"),
       Parti    |-> lr_first(tbl, order, k, "Parti"),
       Votes    |-> IntOf(lr_Votes(tbl, g[1])) ]

\* every winners table load_results can return: one per arrangement the
\* sort of the whole frame can produce
load_results(tbl) ==
  { [k \in lr_Keys(tbl) |-> lr_Winner(tbl, order, k)] :
      order \in sort_values_desc(Rows(tbl), [i \in Rows(tbl) |-> lr_Votes(tbl, i)]) }

\* ------------------------------------------------- ordering of texts
\* the characters that occur in keys, in code point order
CodePoints ==
  << " ", ",", "-", ".", "/", "0", "1", "2", "3", "4", "5", "6", "7", "8", "9",
     "<", ">", "A", "D", "N", "a", "b", "c", "n", "x" >>

CodePoint(c) == CHOOSE n \in 1..Len(CodePoints) : CodePoints[n] = c

\* a < b as Python and JavaScript compare strings
RECURSIVE StrLess(_, _)
StrLess(a, b) ==
  IF b = <<>> THEN FALSE
  ELSE IF a = <<>> THEN TRUE
  ELSE IF a[1] = b[1] THEN StrLess(Tail(a), Tail(b))
  ELSE CodePoint(a[1]) < CodePoint(b[1])

\* sorted(S)[0], Object.keys(o).sort()[0]
SortedFirst(S) == CHOOSE a \in S : \A b \in S : b = a \/ StrLess(a, b)

\* str.replace(a, b, 1): the first occurrence only
RECURSIVE ReplaceFirst(_, _, _)
ReplaceFirst(s, a, b) ==
  IF s = <<>> THEN <<>>
  ELSE IF s[1] = a THEN <<b>> \o Tail(s)
  ELSE <<s[1]>> \o ReplaceFirst(Tail(s), a, b)

\* ------------------------------------------ v1-1/gen_mairie.py: make_map
\* A feature of the districts GeoJSON: its properties, each absent (None)
\* or present (Some of its value).
N_A == <<"N", "/", "A">>

postes_disponibles(winners) == {k[2] : k \in DOMAIN winners}

\* poste is None and the CSV has no row: postes_disponibles[0] raises
mm_Raises(p, winners) == p = None /\ postes_disponibles(winners) = {}

\* the poste make_map joins on: the first available one when none is
\* requested, else the requested one with its first comma made a dot
mm_poste(p, winners) ==
  IF p = None THEN SortedFirst(postes_disponibles(winners))
  ELSE ReplaceFirst(p[1], ",", ".")

\* dict.setdefault(key, v) on one property
setdefault(prop, v) == IF prop = None THEN Some(v) ELSE prop

\* the body of the loop of inject_results_in_geojson for one feature
inject_feature(feat, winner_index, p) ==
  IF feat.district_id = None THEN feat
  ELSE LET key == <<feat.district_id[1], p>>
       IN IF key \notin DOMAIN winner_index
          THEN [feat EXCEPT !.winner_candidate = setdefault(@, Some(N_A)),
                            !.winner_party     = setdefault(@, Some(N_A)),
                            !.winner_votes     = setdefault(@, 0)]
          ELSE [feat EXCEPT !.winner_candidate = Some(winner_index[key].Candidat),
                            !.winner_party     = Some(winner_index[key].Parti),
                            !.winner_votes     = Some(winner_index[key].Votes)]

inject_results_in_geojson(geojson, winner_index, p) ==
  [j \in 1..Len(geojson) |-> inject_feature(geojson[j], winner_index, p)]

\* ------------------------------------- generate_map.py: the page script
\* str(x) of Python: "None" for None
py_str(v) == IF v = None THEN <<"N", "o", "n", "e">> ELSE v[1]

\* String(x ?? '') of JavaScript: "" for null and undefined
js_String(v) == IF v = None THEN <<>> ELSE v[1]

\* normDigits with /^0/ in place of /^0+/: one leading zero removed
normDigits_once(v) ==
  LET s == OnlyDigits(js_String(v))
  IN IF s # <<>> /\ s[1] = "0" THEN Tail(s) ELSE s

normDigits(v) == lstrip0(OnlyDigits(js_String(v)))

\* s.slice(-3) taken from the front of the digits instead of the end
normBureau3_head(v) ==
  LET s == OnlyDigits(js_String(v))
  IN zfill(IF Len(s) > 3 THEN SubSeq(s, 1, 3) ELSE s, 3)

normBureau3(v) ==
  LET s == OnlyDigits(js_String(v))
  IN zfill(IF Len(s) > 3 THEN SubSeq(s, Len(s) - 2, Len(s)) ELSE s, 3)

DISTRICT_KEYS ==
  << "DISTRICTID", "DISTRICT_ID", "DISTRICT", "NO_DISTRICT", "ID_DISTRICT",
     "ARRON_DIST", "ARRDIST", "ARR", "ID_ARR", "ID_ARRONDISSEMENT" >>

BUREAU_KEYS ==
  << "SECTION", "BUREAU", "NO_SECTION", "NO_BUREAU", "SECT_VOTE", "SECTION_VOTE",
     "SECTION_ID" >>

\* props[k] of a feature whose properties are a list of <<name, value>>
\* pairs in the order of the file; None is null or undefined
js_get(props, k) ==
  IF \E j \in 1..Len(props) : props[j][1] = k
  THEN props[CHOOSE j \in 1..Len(props) : props[j][1] = k][2]
  ELSE None

\* a JavaScript string or null taken as a condition
Truthy(v) == v # None /\ v[1] # <<>>

\* the value of the first name of keys that the properties hold
RECURSIVE FirstPresent(_, _)
FirstPresent(props, keys) ==
  IF keys = <<>> THEN None
  ELSE IF js_get(props, keys[1]) # None THEN js_get(props, keys[1])
  ELSE FirstPresent(props, Tail(keys))

\* the digits of every property value that has any, in property order
RECURSIVE PropDigits(_)
PropDigits(props) ==
  IF props = <<>> THEN <<>>
  ELSE LET s == OnlyDigits(js_String(props[1][2]))
       IN (IF s = <<>> THEN <<>> ELSE <<s>>) \o PropDigits(Tail(props))

\* the fallback scan of extractDistBureau over the collected digit strings
RECURSIVE ScanDigits(_, _, _)
ScanDigits(digits, d, b) ==
  IF digits = <<>> THEN <<None, None>>
  ELSE LET s  == digits[1]
           d1 == IF ~Truthy(d) /\ Len(s) <= 3 THEN Some(lstrip0(s)) ELSE d
           b1 == IF ~Truthy(b) /\ Len(s) = 3 THEN Some(s) ELSE b
       IN IF Truthy(d1) /\ Truthy(b1) THEN <<d1, b1>>
          ELSE ScanDigits(Tail(digits), d1, b1)

extractDistBureau(props) ==
  LET dv   == FirstPresent(props, DISTRICT_KEYS)
      bv   == FirstPresent(props, BUREAU_KEYS)
      dist == IF dv = None THEN None ELSE Some(normDigits(dv))
      bure == IF bv = None THEN None ELSE Some(normBureau3(bv))
  IN IF Truthy(dist) /\ Truthy(bure) THEN <<dist, bure>>
     ELSE ScanDigits(PropDigits(props), None, None)

\* the longest prefix of s made of digits
RECURSIVE LeadDigits(_)
LeadDigits(s) ==
  IF s # <<>> /\ s[1] \in Digit THEN <<s[1]>> \o LeadDigits(Tail(s)) ELSE <<>>

RECURSIVE lstrip(_)
lstrip(s) == IF s # <<>> /\ s[1] = " " THEN lstrip(Tail(s)) ELSE s

\* parseFloat(s), in hundredths: the number the longest numeric prefix of
\* s spells, None (NaN) when s starts with no number
js_parseFloat(s) ==
  LET t    == lstrip(s)
      ip   == LeadDigits(t)
      rest == SubSeq(t, Len(ip) + 1, Len(t))
      fp   == IF rest # <<>> /\ rest[1] = "." THEN LeadDigits(Tail(rest)) ELSE <<>>
      f2   == IF Len(fp) > 2 THEN SubSeq(fp, 1, 2) ELSE fp
  IN IF ip = <<>> /\ fp = <<>> THEN None
     ELSE Some(100 * StrToNat(ip) + (IF Len(f2) = 1 THEN 10 * StrToNat(f2) ELSE StrToNat(f2)))

\* String(n) of a number in hundredths
js_NumberStr(n) ==
  IF n = None THEN <<"N", "a", "N">>
  ELSE IF n[1] % 100 = 0 THEN NatToStr(IntOf(n[1]))
  ELSE FloatStr(n[1])

\* winner_key of main: the --winner-poste argument through float() when
\* float() reads it, as given otherwise
winner_key(w) == IF IsNumber(w) THEN gm_pkey(to_numeric(w)) ELSE w

\* RESULTS_INDEX[dist + "|" + bure]: the offices of one section, None when
\* the section has no entry
gm_postes(index, d, b) ==
  IF \E k \in DOMAIN index : k[1] = d /\ k[2] = b
  THEN Some([pk \in {k[3] : k \in {q \in DOMAIN index : q[1] = d /\ q[2] = b}} |->
               index[<<d, b, pk>>]])
  ELSE None

\* String.toUpperCase on the letters the parties are written in
LowerCase == <<"a", "b", "c", "e", "l", "m", "n", "o", "p", "r", "t", "x", "y">>

UpperCase == <<"A", "B", "C", "E", "L", "M", "N", "O", "P", "R", "T", "X", "Y">>

MapChars(s, from, to) ==
  [i \in 1..Len(s) |->
     IF \E n \in 1..Len(from) : from[n] = s[i]
     THEN to[CHOOSE n \in 1..Len(from) : from[n] = s[i]]
     ELSE s[i]]

toUpperCase(s) == MapChars(s, LowerCase, UpperCase)

toLowerCase(s) == MapChars(s, UpperCase, LowerCase)

\* postes[posteKeyStr], else postes[String(parseFloat(posteKeyStr))]
gm_lookup(postes, posteKeyStr) ==
  LET alt == js_NumberStr(js_parseFloat(posteKeyStr))
  IN IF posteKeyStr \in DOMAIN postes THEN Some(postes[posteKeyStr])
     ELSE IF alt \in DOMAIN postes THEN Some(postes[alt])
     ELSE None

getWinnerInfo(postes, posteKeyStr) ==
  IF postes = None \/ gm_lookup(postes[1], posteKeyStr) = None THEN None
  ELSE LET rec == gm_lookup(postes[1], posteKeyStr)[1]
           top == sort_votes_desc(rec.rows)[1]
       IN IF rec.rows = <<>> THEN None
          ELSE Some([ parti |-> toUpperCase(strip(top.parti)), nom |-> top.nom,
                      votes |-> top.votes, total_valid |-> rec.total_valid ])

P_PMELR == <<"P", "M", "E", "L", "R">>

P_EMES == <<"E", "M", "E", "S">>

P_TMECS == <<"T", "M", "E", "C", "S">>

PARTY_COLORS_OTHER == "#9e9e9e"

PARTY_COLORS(p) ==
  IF p = P_PMELR THEN Some("#2e7d32")
  ELSE IF p = P_EMES THEN Some("#6a1b9a")
  ELSE IF p = P_TMECS THEN Some("#ef6c00")
  ELSE None

colorForParty(p) ==
  IF p = <<>> \/ PARTY_COLORS(p) = None THEN PARTY_COLORS_OTHER ELSE PARTY_COLORS(p)[1]

\* sectionFillColor(props): the winner found for the feature and its colour
sectionFillColor(index, winner_poste_key, props) ==
  LET db  == extractDistBureau(props)
      win == IF ~Truthy(db[1]) \/ ~Truthy(db[2]) THEN None
             ELSE getWinnerInfo(gm_postes(index, db[1][1], db[2][1]), winner_poste_key)
  IN [ win |-> win, color |-> IF win = None THEN PARTY_COLORS_OTHER ELSE colorForParty(win[1].parti) ]

\* info.rows after a top row taken with info.rows.shift()
rows_after_shift(rows) == Tail(rows)

\* info.rows after getWinnerInfo took its top row: [...info.rows] is a
\* copy, and the sort of the copy leaves info.rows as it was
rows_after_getWinnerInfo(rows) == rows

\* RESULTS_INDEX after getWinnerInfo(RESULTS_INDEX[d + "|" + b], posteKeyStr)
index_after_getWinnerInfo(index, d, b, posteKeyStr) ==
  LET postes == gm_postes(index, d, b)
      alt    == js_NumberStr(js_parseFloat(posteKeyStr))
      pk     == IF postes = None THEN None
                ELSE IF posteKeyStr \in DOMAIN postes[1] THEN Some(posteKeyStr)
                ELSE IF alt \in DOMAIN postes[1] THEN Some(alt)
                ELSE None
  IN IF pk = None THEN index
     ELSE IF index[<<d, b, pk[1]>>].rows = <<>> THEN index
     ELSE [index EXCEPT ![<<d, b, pk[1]>>].rows = rows_after_getWinnerInfo(@)]

\* RESULTS_INDEX after sectionFillColor(props)
index_after_sectionFillColor(index, winner_poste_key, props) ==
  LET db == extractDistBureau(props)
  IN IF ~Truthy(db[1]) \/ ~Truthy(db[2]) THEN index
     ELSE index_after_getWinnerInfo(index, db[1][1], db[2][1], winner_poste_key)

\* keyStrs.filter(k => ONLY_POSTE.includes(parseFloat(k))) when ONLY_POSTE
\* is given, keyStrs otherwise
filteredStrs(postes, only) ==
  { k \in DOMAIN postes :
      only = {} \/ (js_parseFloat(k) # None /\ js_parseFloat(k)[1] \in only) }

\* popupHTML(props): the extracted district and bureau, which body the
\* popup shows, and the winner of its tag
popupHTML(index, only, winner_poste_key, props) ==
  LET db     == extractDistBureau(props)
      postes == IF Truthy(db[1]) /\ Truthy(db[2])
                THEN gm_postes(index, db[1][1], db[2][1]) ELSE None
      none   == postes = None \/ filteredStrs(postes[1], only) = {}
  IN [ dist |-> db[1], bure |-> db[2],
       body |-> IF postes = None THEN "Resultats introuvables"
                ELSE IF filteredStrs(postes[1], only) = {} THEN "Aucun poste"
                ELSE "tables",
       win  |-> IF none THEN None ELSE getWinnerInfo(postes, winner_poste_key) ]

\* RESULTS_INDEX after popupHTML(props)
index_after_popupHTML(index, only, winner_poste_key, props) ==
  LET db     == extractDistBureau(props)
      postes == IF Truthy(db[1]) /\ Truthy(db[2])
                THEN gm_postes(index, db[1][1], db[2][1]) ELSE None
  IN IF postes = None \/ filteredStrs(postes[1], only) = {} THEN index
     ELSE index_after_getWinnerInfo(index, db[1][1], db[2][1], winner_poste_key)

collectAllPosteKeys(index) == {k[3] : k \in DOMAIN index}

\* the keys the sort by parseFloat can put first: the least number; with a
\* key that is no number the comparator returns NaN and the order is the
\* engine's
FirstOptions(index) ==
  IF \E k \in collectAllPosteKeys(index) : js_parseFloat(k) = None
  THEN collectAllPosteKeys(index)
  ELSE { k \in collectAllPosteKeys(index) :
           \A q \in collectAllPosteKeys(index) : js_parseFloat(k)[1] <= js_parseFloat(q)[1] }

\* the values the dropdown can show after populatePosteSelect: the option
\* equal to WINNER_POSTE_KEY, else the first option, None without options
populatePosteSelect(index, winner_poste_key) ==
  IF winner_poste_key \in collectAllPosteKeys(index) THEN {Some(winner_poste_key)}
  ELSE IF collectAllPosteKeys(index) = {} THEN {None}
  ELSE {Some(k) : k \in FirstOptions(index)}

\* ------------------------------------------ genmap3.py: load_poste_labels
\* f"{f:.2f}" of a number in hundredths
Fixed2(c) ==
  NatToStr(c \div 100) \o <<".", DigitChars[((c % 100) \div 10) + 1], DigitChars[(c % 10) + 1]>>

\* the label of one row of postes.csv
g3_label(row, code) ==
  LET type_str   == normalize_str(row.type)
      poste_name == normalize_str(row.poste)
  IN IF type_str # <<>> /\ poste_name # <<>> THEN type_str \o <<" ">> \o poste_name
     ELSE IF type_str # <<>> THEN type_str
     ELSE IF poste_name # <<>> THEN poste_name
     ELSE code

\* labels_raw: the rows whose "no" is a number, keyed by its two-decimal
\* form, a later row replacing an earlier one of the same code
RECURSIVE labels_raw(_)
labels_raw(csv) ==
  IF csv = <<>> THEN <<>>
  ELSE LET before == labels_raw(SubSeq(csv, 1, Len(csv) - 1))
           row    == csv[Len(csv)]
       IN IF to_numeric(row.no) = None THEN before
          ELSE LET code == Fixed2(to_numeric(row.no)[1])
               IN [c \in DOMAIN before \cup {code} |->
                     IF c = code THEN g3_label(row, code) ELSE before[c]]

\* final_labels: the label of every office code of the index, the code
\* itself when labels_raw does not hold it
load_poste_labels(csv, poste_codes) ==
  [code \in poste_codes |->
     IF code \in DOMAIN labels_raw(csv) THEN labels_raw(csv)[code] ELSE code]

\* ------------------------------------------ genmap3.py: the page script
sectionKeyFromFeature(props) == js_String(js_get(props, "CODE_SECTION"))

posteKeys(index) == {k[1] : k \in DOMAIN index}

\* currentPosteKey when the page opens: the first office in sorted order
g3_first_poste(index) ==
  IF posteKeys(index) = {} THEN None ELSE Some(SortedFirst(posteKeys(index)))

\* s.includes(sub)
Includes(s, sub) ==
  \E a \in 0..(Len(s) - Len(sub)) : SubSeq(s, a + 1, a + Len(sub)) = sub

T_projet == <<"p", "r", "o", "j", "e", "t", " ", "m", "o", "n", "t", "r">>

T_ensemble == <<"e", "n", "s", "e", "m", "b", "l", "e", " ", "m", "o", "n", "t", "r">>

T_transition == <<"t", "r", "a", "n", "s", "i", "t", "i", "o", "n">>

T_action == <<"a", "c", "t", "i", "o", "n">>

partyColor(parti) ==
  IF parti = <<>> THEN "#cccccc"
  ELSE IF Includes(toLowerCase(parti), T_projet) THEN "#1ebf3a"
  ELSE IF Includes(toLowerCase(parti), T_ensemble) THEN "#9b59b6"
  ELSE IF Includes(toLowerCase(parti), T_transition) THEN "#f39c12"
  ELSE IF Includes(toLowerCase(parti), T_action) THEN "#5dade2"
  ELSE "#cccccc"

\* styleSection(feature): whether the office and the section were found,
\* and the fill colour
styleSection(index, currentPosteKey, props) ==
  LET key       == sectionKeyFromFeature(props)
      posteData == currentPosteKey # None /\ currentPosteKey[1] # <<>>
                     /\ currentPosteKey[1] \in posteKeys(index)
      found     == posteData /\ <<currentPosteKey[1], key>> \in DOMAIN index
  IN [ posteData |-> posteData, found |-> found,
       color |-> IF found THEN partyColor(index[<<currentPosteKey[1], key>>].winner_party)
                 ELSE "#eeeeee" ]

\* currentPosteLabel(): POSTE_LABELS[currentPosteKey] || currentPosteKey
currentPosteLabel(labels, currentPosteKey) ==
  IF ~Truthy(currentPosteKey) THEN <<>>
  ELSE IF currentPosteKey[1] \in DOMAIN labels /\ labels[currentPosteKey[1]] # <<>>
       THEN labels[currentPosteKey[1]]
  ELSE currentPosteKey[1]

\* the click handler of onEachSection with buildPopupHtml: the section
\* key, which body the popup shows, and the office label of its table
buildPopupHtml(index, labels, currentPosteKey, props) ==
  LET found == styleSection(index, currentPosteKey, props).found
  IN [ key   |-> sectionKeyFromFeature(props),
       body  |-> IF found THEN "table" ELSE "Aucune donnee",
       poste |-> IF found THEN currentPosteLabel(labels, currentPosteKey) ELSE <<>> ]

\* ------------------------------------------------------------ the inputs
\* Tables are drawn row by row from one of the families of rows, each
\* varying the cells one part of the aggregation depends on.
S_0     == <<"0">>
S_1     == <<"1">>
S_2     == <<"2">>
S_5     == <<"5">>
S_11    == <<"1", "1">>
S_011   == <<"0", "1", "1">>
S_32    == <<"3", "2">>
S_abc   == <<"a", "b", "c">>
S_x     == <<"x">>
S_NA    == <<"N", "/", "A">>
S_1c10  == <<"1", ",", "1", "0">>
S_X     == <<" ", "X">>
EMPTY   == <<>>
S_0d0   == <<"0", ".", "0">>
S_1d10  == <<"1", ".", "1", "0">>
S_12    == <<"1", "2">>
S_D1    == <<"D", "1">>
S_001   == <<"0", "0", "1">>
S_A     == <<"A">>
S_B     == <<"B">>
S_PartyX == <<"P", "a", "r", "t", "y", "X">>
S_PartyY == <<"P", "a", "r", "t", "y", "Y">>
S_20    == <<"2", "0">>
S_30    == <<"3", "0">>
S_50    == <<"5", "0">>

\* the candidate of the n-th row: names differ from row to row
CandName(n) == <<"C", DigitChars[n + 1], " ">>

TotalsColumns == {"TotalValidVotes", "TotalRejectedVotes", "TotalVotes"}

BaseRow ==
  [ Poste |-> S_0, District |-> S_11, Bureau |-> S_1, Candidat |-> S_x, Parti |-> S_X,
    Votes |-> S_1, TotalValidVotes |-> EMPTY, TotalRejectedVotes |-> EMPTY,
    TotalVotes |-> EMPTY ]

S_12345 == <<"1", "2", "3", "4", "5">>

Families == {"votes", "names", "keys", "pct", "office", "blank", "e2e"}

Cells(fam) ==
  CASE fam = "votes" ->
         { [BaseRow EXCEPT !.Votes = v, !.Bureau = b] :
             v \in {S_1, S_2, S_abc, EMPTY}, b \in {S_1, S_2} }
    [] fam = "names" ->
         { [BaseRow EXCEPT !.Candidat = c, !.Parti = q, !.Votes = v] :
             c \in {S_x, EMPTY}, q \in {S_X, EMPTY}, v \in {S_1, S_2} }
    [] fam = "keys" ->
         { [BaseRow EXCEPT !.Poste = o, !.District = d] :
             o \in {S_0, S_1c10, S_NA}, d \in {S_11, S_011, S_x} }
    [] fam = "pct" ->
         { [BaseRow EXCEPT !.Votes = v, !.TotalValidVotes = tv, !.TotalVotes = tt,
                           !.TotalRejectedVotes = S_1] :
             v \in {S_1, S_2}, tv \in {EMPTY, S_0, S_32}, tt \in {EMPTY, S_0, S_5} }
    [] fam = "office" ->
         { [BaseRow EXCEPT !.Poste = o] : o \in {S_0, S_0d0, S_1, S_1d10, S_1c10} }
    [] fam = "blank" ->
         { [BaseRow EXCEPT !.District = d, !.Bureau = b] :
             d \in {S_11, EMPTY}, b \in {S_1, EMPTY} }
    [] fam = "e2e" ->
         { [BaseRow EXCEPT !.District = d, !.Bureau = b, !.Candidat = c[1],
                           !.Parti = c[2], !.Votes = c[3], !.TotalValidVotes = S_50] :
             d \in {S_D1, S_1}, b \in {S_001, S_12345},
             c \in { <<S_A, S_PartyX, S_30>>, <<S_B, S_PartyY, S_20>> } }

Header(fam) ==
  IF fam = "pct" THEN TotalsColumns
  ELSE IF fam = "e2e" THEN {"TotalValidVotes"}
  ELSE {}

RowLimit(fam) == IF fam = "office" THEN MaxRows ELSE MaxRowsPct

Programs == {"genmap3", "generate_map", "gen_mairie"}

\* --only-poste of generate_map.py, in hundredths: not given, or [0.0]
OnlyPosteChoices == { {} , {0} }

\* the districts GeoJSON of gen_mairie.py: features with the id field, some
\* already carrying winner properties
NoProps ==
  [ district_id |-> None, winner_candidate |-> None, winner_party |-> None,
    winner_votes |-> None ]

MairieGeo ==
  { << [NoProps EXCEPT !.district_id = Some(S_11)],
       [NoProps EXCEPT !.district_id = Some(S_12)] >>,
    << NoProps,
       [NoProps EXCEPT !.district_id = Some(S_12), !.winner_candidate = Some(Some(S_x)),
                       !.winner_party = Some(Some(S_X)), !.winner_votes = Some(7)],
       [NoProps EXCEPT !.district_id = Some(S_11), !.winner_candidate = Some(Some(S_x)),
                       !.winner_party = Some(Some(S_X)), !.winner_votes = Some(7)] >> }

\* the poste argument of make_map: not given, or an office code
PosteArgs(fam) == IF fam = "office" THEN {None, Some(S_0), Some(S_1c10)} ELSE {None}

\* the sections GeoJSON of generate_map.py: district and section in split
\* properties, a null section, a section without a digit
S_007 == <<"0", "0", "7">>

S_345 == <<"3", "4", "5">>

S_000 == <<"0", "0", "0">>

GenerateMapGeo ==
  { << << <<"DISTRICT", Some(S_011)>>, <<"SECTION", Some(S_1)>> >>,
       << <<"NOM", Some(S_x)>>, <<"DISTRICT", Some(S_11)>>, <<"SECTION", None>> >>,
       << <<"DISTRICT", Some(S_11)>>, <<"SECTION", Some(S_abc)>> >> >>,
    << << <<"NOM", Some(S_12)>>, <<"ARRONDISSEMENT", Some(S_345)>> >>,
       << <<"NOM", Some(S_000)>>, <<"ARRONDISSEMENT", Some(S_12)>> >>,
       << <<"NOM", Some(S_12)>> >> >> }

\* --winner-poste of generate_map.py
WinnerPosteArgs(fam) == IF fam = "office" THEN {S_0, S_1d10, S_1c10} ELSE {S_0}

\* the sections GeoJSON of genmap3.py: a section code, a null one
S_011_001 == <<"0", "1", "1", "-", "0", "0", "1">>

\* postes.csv of genmap3.py: the mayor (0) and a borough office (1.1)
S_M == <<"M">>

S_1d1 == <<"1", ".", "1">>

PostesCsv ==
  { << [no |-> S_0, type |-> S_M, poste |-> EMPTY],
       [no |-> S_1d1, type |-> S_X, poste |-> S_x],
       [no |-> EMPTY, type |-> S_M, poste |-> EMPTY] >> }

Genmap3Geo ==
  { << << <<"CODE_SECTION", Some(S_011_001)>> >>, << <<"CODE_SECTION", None>> >> >> }

\* ------------------------------------------------------------- the state
VARIABLES prog, family, only_poste, table, pc, out,
          argv, geojson_file, geojson_data, postes_csv, poste_labels, poste_key, info,
          RESULTS_INDEX, popup, select_value,
          arg, typed, fn, res, res2, page_res

tablevars == <<prog, family, only_poste, table>>

mapvars == <<argv, geojson_file, geojson_data, postes_csv, poste_labels, poste_key, info,
             RESULTS_INDEX, popup, select_value>>

normvars == <<arg, typed, fn, res, res2, page_res>>

vars == <<tablevars, pc, out, mapvars, normvars>>

NoOutput == [status |-> "none", index |-> <<>>]

NoInfo == [feature |-> 0]

NoMap ==
  /\ argv = None
  /\ geojson_file = <<>>
  /\ geojson_data = <<>>
  /\ postes_csv = <<>>
  /\ poste_labels = <<>>
  /\ poste_key = None
  /\ info = NoInfo
  /\ RESULTS_INDEX = <<>>
  /\ popup = NoInfo
  /\ select_value = None

NoCall ==
  /\ arg = None
  /\ typed = 0
  /\ fn = "none"
  /\ res = <<>>
  /\ res2 = None
  /\ page_res = None

Init ==
  /\ prog \in Programs
  /\ family \in Families
  /\ only_poste \in (IF prog = "generate_map" THEN OnlyPosteChoices ELSE { {} })
  /\ table = <<>>
  /\ pc = "read"
  /\ out = NoOutput
  /\ NoMap
  /\ NoCall

\* one more row of the CSV file
ReadRow ==
  /\ pc = "read"
  /\ Len(table) < RowLimit(family)
  /\ \E r \in Cells(family) :
       table' = Append(table,
                       IF r.Candidat = S_x
                       THEN [r EXCEPT !.Candidat = CandName(Len(table) + 1)] ELSE r)
  /\ UNCHANGED <<prog, family, only_poste, pc, out, mapvars, normvars>>

Genmap3Build ==
  /\ pc = "read" /\ prog = "genmap3"
  /\ IF g3_Raises(table)
     THEN out' = [status |-> "raised", index |-> <<>>]
     ELSE \E idx \in g3_build_results_index(table, Header(family)) :
            out' = [status |-> "ok", index |-> idx]
  /\ pc' = "done"
  /\ UNCHANGED <<tablevars, mapvars, normvars>>

GenerateMapBuild ==
  /\ pc = "read" /\ prog = "generate_map"
  /\ out' = IF gm_Raises(table, Header(family), only_poste)
            THEN [status |-> "raised", index |-> <<>>]
            ELSE [status |-> "ok",
                  index |-> gm_build_results_index(table, Header(family), only_poste)]
  /\ pc' = "done"
  /\ UNCHANGED <<tablevars, mapvars, normvars>>

MairieLoad ==
  /\ pc = "read" /\ prog = "gen_mairie"
  /\ \E w \in load_results(table) : out' = [status |-> "ok", index |-> w]
  /\ pc' = "done"
  /\ UNCHANGED <<tablevars, mapvars, normvars>>

\* make_map after load_results: the poste is chosen, the GeoJSON is loaded
\* and the winners are injected into its features
MairieInject ==
  /\ pc = "done" /\ prog = "gen_mairie"
  /\ \E p \in PosteArgs(family), g \in MairieGeo :
       /\ argv' = p
       /\ geojson_file' = g
       /\ IF mm_Raises(p, out.index)
          THEN /\ pc' = "raised"
               /\ UNCHANGED <<geojson_data, poste_key>>
          ELSE /\ pc' = "injected"
               /\ poste_key' = Some(mm_poste(p, out.index))
               /\ geojson_data' =
                    inject_results_in_geojson(g, out.index, mm_poste(p, out.index))
  /\ UNCHANGED <<tablevars, out, postes_csv, poste_labels, info, RESULTS_INDEX, popup,
               select_value, normvars>>

\* main and make_html of generate_map.py: the GeoJSON and the index are
\* written into the page with the normalized --winner-poste
GenerateMapHtml ==
  /\ pc = "done" /\ prog = "generate_map" /\ out.status = "ok"
  /\ Len(table) <= MaxPageRows
  /\ \E w \in WinnerPosteArgs(family), g \in GenerateMapGeo :
       /\ argv' = Some(w)
       /\ geojson_file' = g
       /\ geojson_data' = g
       /\ poste_key' = Some(winner_key(w))
       /\ select_value' \in populatePosteSelect(out.index, winner_key(w))
  /\ RESULTS_INDEX' = out.index
  /\ pc' = "page"
  /\ UNCHANGED <<tablevars, out, postes_csv, poste_labels, info, popup, normvars>>

\* the page of generate_map.py styles one section
SectionFillColor ==
  /\ pc = "page" /\ prog = "generate_map"
  /\ \E j \in 1..Len(geojson_data) :
       /\ info' = [feature |-> j,
                   res |-> sectionFillColor(RESULTS_INDEX, poste_key[1], geojson_data[j])]
       /\ RESULTS_INDEX' =
            index_after_sectionFillColor(RESULTS_INDEX, poste_key[1], geojson_data[j])
  /\ UNCHANGED <<tablevars, pc, out, argv, geojson_file, geojson_data, postes_csv,
               poste_labels, poste_key, popup, select_value, normvars>>

\* a click on one section of the page of generate_map.py opens its popup
PopupHTML ==
  /\ pc = "page" /\ prog = "generate_map"
  /\ \E j \in 1..Len(geojson_data) :
       /\ popup' = [feature |-> j,
                    res |-> popupHTML(RESULTS_INDEX, only_poste, poste_key[1],
                                      geojson_data[j])]
       /\ RESULTS_INDEX' =
            index_after_popupHTML(RESULTS_INDEX, only_poste, poste_key[1], geojson_data[j])
  /\ UNCHANGED <<tablevars, pc, out, argv, geojson_file, geojson_data, postes_csv,
               poste_labels, poste_key, info, select_value, normvars>>

\* the change handler of the poste dropdown of generate_map.py: the chosen
\* option becomes WINNER_POSTE_KEY and the sections are repainted
PosteSelectChange ==
  /\ pc = "page" /\ prog = "generate_map"
  /\ \E k \in collectAllPosteKeys(RESULTS_INDEX) :
       /\ poste_key' = Some(k)
       /\ select_value' = Some(k)
  /\ info' = NoInfo
  /\ UNCHANGED <<tablevars, pc, out, argv, geojson_file, geojson_data, postes_csv,
               poste_labels, RESULTS_INDEX, popup, normvars>>

\* main of genmap3.py after build_results_index: load_poste_labels,
\* generate_html and the opening of the page
Genmap3Html ==
  /\ pc = "done" /\ prog = "genmap3" /\ out.status = "ok"
  /\ Len(table) <= MaxPageRows
  /\ \E g \in Genmap3Geo, csv \in PostesCsv :
       /\ geojson_file' = g
       /\ geojson_data' = g
       /\ postes_csv' = csv
       /\ poste_labels' = load_poste_labels(csv, posteKeys(out.index))
  /\ poste_key' = g3_first_poste(out.index)
  /\ select_value' = g3_first_poste(out.index)
  /\ RESULTS_INDEX' = out.index
  /\ pc' = "page"
  /\ UNCHANGED <<tablevars, out, argv, info, popup, normvars>>

\* the change handler of the poste dropdown of genmap3.py
SelectChange ==
  /\ pc = "page" /\ prog = "genmap3"
  /\ \E k \in posteKeys(RESULTS_INDEX) :
       /\ poste_key' = Some(k)
       /\ select_value' = Some(k)
  /\ info' = NoInfo
  /\ popup' = NoInfo
  /\ UNCHANGED <<tablevars, pc, out, argv, geojson_file, geojson_data, postes_csv,
               poste_labels, RESULTS_INDEX, normvars>>

\* the page of genmap3.py styles one section
StyleSection ==
  /\ pc = "page" /\ prog = "genmap3"
  /\ \E j \in 1..Len(geojson_data) :
       info' = [feature |-> j,
                res |-> styleSection(RESULTS_INDEX, poste_key, geojson_data[j])]
  /\ UNCHANGED <<tablevars, pc, out, argv, geojson_file, geojson_data, postes_csv,
               poste_labels, poste_key, RESULTS_INDEX, popup, select_value, normvars>>

\* a click on one section of the page of genmap3.py opens its popup
ClickSection ==
  /\ pc = "page" /\ prog = "genmap3"
  /\ \E j \in 1..Len(geojson_data) :
       popup' = [feature |-> j,
                 res |-> buildPopupHtml(RESULTS_INDEX, poste_labels, poste_key,
                                        geojson_data[j])]
  /\ UNCHANGED <<tablevars, pc, out, argv, geojson_file, geojson_data, postes_csv,
               poste_labels, poste_key, info, RESULTS_INDEX, select_value, normvars>>

Next ==
  \/ ReadRow \/ Genmap3Build \/ GenerateMapBuild \/ MairieLoad
  \/ MairieInject \/ GenerateMapHtml \/ SectionFillColor \/ PopupHTML \/ PosteSelectChange
  \/ Genmap3Html \/ SelectChange \/ StyleSection \/ ClickSection

Spec == Init /\ [][Next]_vars

\* ------------------------------------------- the key normalizers alone
\* Each normalizer is called on a value: None, or a text made of one of the
\* sample texts followed by up to MaxLen more characters.  A second call
\* feeds the result back to the same normalizer.
S_Bureau7 == <<"B", "u", "r", "e", "a", "u", " ", "7">>

Alphabet == {"0", "1", "a", "."}

NormInputs ==
  { None, Some(EMPTY), Some(S_abc), Some(S_Bureau7), Some(S_12345), Some(S_1c10),
    Some(S_1d10), Some(S_0d0), Some(S_011), Some(<<ARABIC_THREE>>) }

NormInit ==
  /\ prog = "normalizers"
  /\ family = "none"
  /\ only_poste = {}
  /\ table = <<>>
  /\ pc = "call"
  /\ out = NoOutput
  /\ NoMap
  /\ arg \in NormInputs
  /\ typed = 0
  /\ fn = "none"
  /\ res = <<>>
  /\ res2 = None
  /\ page_res = None

TypeChar ==
  /\ fn = "none" /\ arg # None /\ typed < MaxLen
  /\ \E c \in Alphabet : arg' = Some(Append(arg[1], c))
  /\ typed' = typed + 1
  /\ UNCHANGED <<tablevars, pc, out, mapvars, fn, res, res2, page_res>>

\* the call f(arg) returning r
Returns(f, r) ==
  /\ fn = "none"
  /\ fn' = f
  /\ res' = r
  /\ UNCHANGED <<tablevars, pc, out, mapvars, arg, typed, res2, page_res>>

CallNormDigits == Returns("norm_digits", norm_digits(py_str(arg)))

CallNormBureau3 == Returns("norm_bureau3", norm_bureau3(py_str(arg)))

CallNormDigitsJS == Returns("normDigits", normDigits(arg))

CallNormBureau3JS == Returns("normBureau3", normBureau3(arg))

\* a Poste cell read as float by generate_map.py and made a key
CallPosteKey ==
  /\ arg # None /\ (IsNumber(arg[1]) \/ IsNA(arg[1]))
  /\ Len(arg[1]) <= MaxCellLen
  /\ Returns("pkey", gm_pkey(to_numeric(arg[1])))

\* a Poste cell, alone in its column, made a key by genmap3.py
CallPosteNorm ==
  /\ arg # None /\ Len(arg[1]) <= MaxCellLen
  /\ Returns("PosteNorm", g3_PosteNorm(<<[Poste |-> arg[1]]>>, 1))

\* a Bureau cell, alone in its column, made a section code by genmap3.py
CallBureauStr ==
  /\ arg # None /\ Len(arg[1]) <= MaxCellLen
  /\ Returns("BureauStr", g3_BureauStr(<<[Bureau |-> arg[1]]>>, 1))

\* the same normalizer applied to the value it returned
Again(f, s) ==
  CASE f = "norm_digits"  -> norm_digits(py_str(Some(s)))
    [] f = "norm_bureau3" -> norm_bureau3(py_str(Some(s)))
    [] f = "normDigits"   -> normDigits(Some(s))
    [] f = "normBureau3"  -> normBureau3(Some(s))
    [] f = "pkey"         -> gm_pkey_str(s)
    [] f = "PosteNorm"    -> g3_PosteNorm_str(s)
    [] f = "BureauStr"    -> g3_BureauStr_str(s)

CallAgain ==
  /\ fn # "none" /\ res2 = None
  /\ res2' = Some(Again(fn, res))
  /\ UNCHANGED <<tablevars, pc, out, mapvars, arg, typed, fn, res, page_res>>

\* the page normalizes, for a feature, the raw value the aggregator
\* normalized for a row
CallPage ==
  /\ fn \in {"norm_digits", "norm_bureau3"} /\ page_res = None
  /\ page_res' = Some(IF fn = "norm_digits" THEN normDigits(arg) ELSE normBureau3(arg))
  /\ UNCHANGED <<tablevars, pc, out, mapvars, arg, typed, fn, res, res2>>

NormNext ==
  \/ TypeChar
  \/ CallNormDigits \/ CallNormBureau3 \/ CallNormDigitsJS \/ CallNormBureau3JS
  \/ CallPosteKey \/ CallPosteNorm \/ CallBureauStr
  \/ CallAgain \/ CallPage

NormSpec == NormInit /\ [][NormNext]_vars

\* ------------------------------------------------- reading the output
Done == pc = "done"

Ok == Done /\ out.status = "ok"

IsIndexProg == prog \in {"genmap3", "generate_map"}

\* the key a table row is filed under, by the running program
RowKey(i) ==
  IF prog = "genmap3" THEN g3_Key(table, i)
  ELSE IF prog = "generate_map" THEN gm_IndexKey(gm_Key(table, i))
  ELSE lr_Key(table, i)

GroupRowsOf(k) == {i \in Rows(table) : RowKey(i) = k}

\* the votes of a row as an integer, 0 when the cell is not a number
RowVotes(i) == IF IsInt(table[i].Votes) THEN StrToNat(table[i].Votes) ELSE 0

MaxVotesOf(k) == SetMax({RowVotes(i) : i \in GroupRowsOf(k)})

FirstMaxRow(k) ==
  CHOOSE i \in GroupRowsOf(k) :
    /\ RowVotes(i) = MaxVotesOf(k)
    /\ \A j \in GroupRowsOf(k) : RowVotes(j) = MaxVotesOf(k) => i <= j

\* the candidate list of a record, and the name and party it shows for a row
ListOf(k) == IF prog = "genmap3" THEN out.index[k].breakdown ELSE out.index[k].rows

NameIn(e) == IF prog = "genmap3" THEN e.candidat ELSE e.nom

RowText(cell) ==
  IF prog = "genmap3" THEN normalize_str(cell) ELSE IF IsNA(cell) THEN <<>> ELSE cell

\* the rows generate_map.py keeps under --only-poste; every row otherwise
RetainedRows ==
  IF prog = "generate_map" /\ only_poste # {}
  THEN {i \in Rows(table) : IsNumber(table[i].Poste) /\ Cents(table[i].Poste) \in only_poste}
  ELSE Rows(table)

\* entries of all candidate lists that show row i's candidate, party, votes
Occurrences(i) ==
  { <<k, j>> \in UNION { {k} \X (1..Len(ListOf(k))) : k \in DOMAIN out.index } :
      /\ k = RowKey(i)
      /\ NameIn(ListOf(k)[j]) = RowText(table[i].Candidat)
      /\ ListOf(k)[j].parti = RowText(table[i].Parti)
      /\ ListOf(k)[j].votes = RowVotes(i) }

\* rows of a set that are indistinguishable from row i in the output
Lookalikes(S, i) ==
  { j \in S : /\ RowKey(j) = RowKey(i)
              /\ table[j].Candidat = table[i].Candidat
              /\ table[j].Parti = table[i].Parti
              /\ RowVotes(j) = RowVotes(i) }

RECURSIVE SumLen(_)
SumLen(K) ==
  IF K = {} THEN 0
  ELSE LET k == CHOOSE x \in K : TRUE IN Len(ListOf(k)) + SumLen(K \ {k})

\* the rows of S are exactly partitioned into the records of the index
PartitionOf(S) ==
  /\ DOMAIN out.index = {RowKey(i) : i \in S}
  /\ SumLen(DOMAIN out.index) = Cardinality(S)
  /\ \A i \in S : Cardinality(Occurrences(i)) = Cardinality(Lookalikes(S, i))

\* ---------------------------------------------------------------- claims

\* C1: in every group the winner has the maximum votes of the group and,
\* when several rows tie for the maximum, is the first of them in input
\* order.  (genmap3: all three winner fields; gen_mairie: groups whose rows
\* all carry a candidate.)
C1_StableWinner ==
  /\ (Ok /\ prog = "genmap3") =>
       \A k \in DOMAIN out.index :
          /\ out.index[k].winner_votes = MaxVotesOf(k)
          /\ out.index[k].winner_candidate = normalize_str(table[FirstMaxRow(k)].Candidat)
          /\ out.index[k].winner_party = normalize_str(table[FirstMaxRow(k)].Parti)
  /\ (Ok /\ prog = "gen_mairie") =>
       \A k \in DOMAIN out.index :
          (\A i \in GroupRowsOf(k) : ~IsNA(table[i].Candidat)) =>
             /\ out.index[k].Votes = MaxVotesOf(k)
             /\ out.index[k].Candidat = Some(table[FirstMaxRow(k)].Candidat)

\* the value GroupBy.first() shows for a cell of the row it came from
CellOf(cell) == IF IsNA(cell) THEN None ELSE Some(cell)

\* C2: the winner's candidate, party and votes all come from one and the
\* same row of the group, a row with the maximum votes, also when that
\* row's candidate or party is missing.
C2_WinnerOneRow ==
  /\ (Ok /\ prog = "genmap3") =>
       \A k \in DOMAIN out.index :
          \E i \in GroupRowsOf(k) :
             /\ RowVotes(i) = MaxVotesOf(k)
             /\ out.index[k].winner_votes = RowVotes(i)
             /\ out.index[k].winner_candidate = normalize_str(table[i].Candidat)
             /\ out.index[k].winner_party = normalize_str(table[i].Parti)
  /\ (Ok /\ prog = "gen_mairie") =>
       \A k \in DOMAIN out.index :
          \E i \in GroupRowsOf(k) :
             /\ RowVotes(i) = MaxVotesOf(k)
             /\ out.index[k].Votes = RowVotes(i)
             /\ out.index[k].Candidat = CellOf(table[i].Candidat)
             /\ out.index[k].Parti = CellOf(table[i].Parti)

\* the names of the rows of a group in table order, stably sorted by votes
\* descending: row a precedes row b when it has more votes, or as many and
\* comes first in the table
Precedes(a, b) == RowVotes(a) > RowVotes(b) \/ (RowVotes(a) = RowVotes(b) /\ a < b)

RankIn(S, i) == 1 + Cardinality({j \in S : Precedes(j, i)})

\* C3: in every record of build_results_index the candidate list is in
\* descending order of votes, rows with equal votes in source order.
C3_BreakdownSorted ==
  (Ok /\ IsIndexProg) =>
     \A k \in DOMAIN out.index :
        /\ \A j \in 1..(Len(ListOf(k)) - 1) : ListOf(k)[j].votes >= ListOf(k)[j + 1].votes
        /\ \A i \in GroupRowsOf(k) \cap RetainedRows :
              NameIn(ListOf(k)[RankIn(GroupRowsOf(k) \cap RetainedRows, i)])
                = RowText(table[i].Candidat)

\* C4 as stated: every input row is in exactly one group and once in
\* exactly one candidate list, one record per distinct key of the input.
C4_AllRowsPartition == (Ok /\ IsIndexProg) => PartitionOf(Rows(table))

\* C4 amended: the same of the rows retained by the --only-poste filter of
\* generate_map.py (all rows when no filter is given, and in genmap3.py).
C4_RetainedPartition == (Ok /\ IsIndexProg) => PartitionOf(RetainedRows)

C4_Witness ==
  /\ Ok /\ prog = "generate_map" /\ only_poste # {}
  /\ Len(table) = 3
  /\ Cardinality(RetainedRows) = 2
  /\ Cardinality(DOMAIN out.index) = 1

\* the totals a record shows, as optional integers
ShownValid(k) ==
  IF prog = "genmap3" THEN out.index[k].total_valid ELSE Some(out.index[k].total_valid)

ShownTotal(k) ==
  IF prog = "genmap3" THEN out.index[k].total_votes ELSE Some(out.index[k].total)

\* the denominator the claim prescribes for a record
ClaimedDenominator(k) ==
  IF ShownValid(k) # None /\ ShownValid(k)[1] > 0 THEN ShownValid(k)
  ELSE IF ShownTotal(k) # None /\ ShownTotal(k)[1] > 0 THEN ShownTotal(k)
  ELSE None

\* 2 * |a - b|
TwiceDist(a, b) == IF a >= b THEN 2 * (a - b) ELSE 2 * (b - a)

\* entry e shows votes * 100 / d: exactly (genmap3, a quotient), or to the
\* nearest hundredth (generate_map, in hundredths)
ShowsQuotient(e, d) ==
  IF prog = "genmap3"
  THEN e.pct # None /\ e.pct[1].num * d = e.votes * 100 * e.pct[1].den
  ELSE TwiceDist(e.pct * d, e.votes * 100 * 100) <= d

\* entry e shows no percentage: null, or the 0.0 generate_map writes
ShowsNoPct(e) == IF prog = "genmap3" THEN e.pct = None ELSE e.pct = 0

\* C5: the percentages of a record are taken over total_valid when it is
\* present and > 0, else over total_votes when it is present and > 0, and
\* are undefined otherwise.
C5_Denominator ==
  (Ok /\ IsIndexProg) =>
     \A k \in DOMAIN out.index :
        \A j \in 1..Len(ListOf(k)) :
           IF ClaimedDenominator(k) = None THEN ShowsNoPct(ListOf(k)[j])
           ELSE ShowsQuotient(ListOf(k)[j], ClaimedDenominator(k)[1])

\* the denominator the program itself used for a record
UsedDenominator(k) ==
  IF prog = "genmap3" THEN ClaimedDenominator(k)
  ELSE IF out.index[k].total_valid > 0 THEN Some(out.index[k].total_valid) ELSE None

\* entry e shows a whole number of hundredths, the one nearest to
\* votes * 100 / d (either way on a tie)
ShowsRounded(e, d) ==
  IF prog = "genmap3"
  THEN /\ e.pct # None
       /\ (e.pct[1].num * 100) % e.pct[1].den = 0
       /\ TwiceDist(((e.pct[1].num * 100) \div e.pct[1].den) * d, e.votes * 100 * 100) <= d
  ELSE TwiceDist(e.pct * d, e.votes * 100 * 100) <= d

\* C6: every entry with a valid denominator shows votes * 100 / denominator
\* rounded to 2 decimals.
C6_PctRounded ==
  (Ok /\ IsIndexProg) =>
     \A k \in DOMAIN out.index :
        UsedDenominator(k) # None =>
           \A j \in 1..Len(ListOf(k)) : ShowsRounded(ListOf(k)[j], UsedDenominator(k)[1])

\* the district and office cells of every row can be read by both programs
KeysReadable ==
  \A i \in Rows(table) :
     IsInt(table[i].District) /\ (IsNA(table[i].Poste) \/ IsNumber(table[i].Poste))

\* C7: every output votes value is a non-negative integer, and a row whose
\* votes cell is not a number or is missing is shown with votes 0.
C7_VotesCoerced ==
  (Done /\ IsIndexProg /\ KeysReadable) =>
     /\ \A k \in DOMAIN out.index :
           \A j \in 1..Len(ListOf(k)) : ListOf(k)[j].votes \in Nat
     /\ \A i \in RetainedRows :
           ~IsNumber(table[i].Votes) =>
              /\ RowKey(i) \in DOMAIN out.index
              /\ \E j \in 1..Len(ListOf(RowKey(i))) :
                    /\ NameIn(ListOf(RowKey(i))[j]) = RowText(table[i].Candidat)
                    /\ ListOf(RowKey(i))[j].votes = 0

\* C8: a row whose office cannot be normalized (Poste "N/A") is in no
\* group and in no entry of the index; the other rows are aggregated.
C8_UnkeyableDropped ==
  (Ok /\ IsIndexProg) =>
     \A i \in Rows(table) :
        IF IsNA(table[i].Poste)
        THEN RowKey(i) \notin DOMAIN out.index /\ Occurrences(i) = {}
        ELSE i \in RetainedRows => RowKey(i) \in DOMAIN out.index

\* C9: build_results_index never raises on a data-quality issue; it ends
\* with an index for every table.
C9_NeverRaises == (Done /\ IsIndexProg) => out.status = "ok"

\* C10: a table of zero rows yields an empty index and no error.
C10_EmptyTable ==
  (Done /\ IsIndexProg /\ table = <<>>) => (out.status = "ok" /\ DOMAIN out.index = {})

C10_Witness == Done /\ prog = "genmap3" /\ table = <<>> /\ out.status = "ok"

\* ------------------------------------------------- claims C11 to C20
ShownRejected(k) ==
  IF prog = "genmap3" THEN out.index[k].total_rejected ELSE Some(out.index[k].rejected)

ShownPct(e) == IF prog = "genmap3" THEN e.pct ELSE Some(e.pct)

\* the table gives no value of a totals column for the rows of a group
Unavailable(col, k) ==
  \/ col \notin Header(family)
  \/ \A i \in GroupRowsOf(k) \cap RetainedRows : ~IsNumber(table[i][col])

Injected == pc = "injected"

\* the feature names a district that has no winner for the joined poste
NoResultFor(feat) ==
  feat.district_id # None /\ <<feat.district_id[1], poste_key[1]>> \notin DOMAIN out.index

\* C11: a numeric field of the output whose value is not available is null
\* or absent, never a number: a total the table does not give, a
\* percentage without a denominator, the votes of a winner that does not
\* exist.
C11_NullNotZero ==
  /\ (Ok /\ IsIndexProg) =>
       \A k \in DOMAIN out.index :
          /\ Unavailable("TotalValidVotes", k) => ShownValid(k) = None
          /\ Unavailable("TotalVotes", k) => ShownTotal(k) = None
          /\ Unavailable("TotalRejectedVotes", k) => ShownRejected(k) = None
          /\ UsedDenominator(k) = None =>
               \A j \in 1..Len(ListOf(k)) : ShownPct(ListOf(k)[j]) = None
  /\ Injected =>
       \A f \in 1..Len(geojson_data) :
          (NoResultFor(geojson_file[f]) /\ geojson_file[f].winner_votes = None)
             => geojson_data[f].winner_votes = None

\* the office part of an index key
OfficeOf(k) == IF prog = "genmap3" THEN k[1] ELSE IF prog = "generate_map" THEN k[3] ELSE k[2]

\* an office cell with its decimal comma made a point
DotCell(cell) == Replace(cell, ",", ".")

\* the canonical code of an office number in hundredths: no fractional
\* part when integral, two decimals otherwise
CanonicalOffice(c) ==
  IF c % 100 = 0 THEN NatToStr(c \div 100)
  ELSE NatToStr(c \div 100) \o <<".", DigitChars[((c % 100) \div 10) + 1],
                                      DigitChars[(c % 10) + 1]>>

\* C12: every aggregated row whose office cell spells a number is filed
\* under the canonical code of that number: "0" for 0 and 0.0, "1.10" for
\* 1.1.
C12_CanonicalOffice ==
  (Ok /\ IsIndexProg) =>
     \A i \in RetainedRows :
        IsNumber(DotCell(table[i].Poste)) =>
           OfficeOf(RowKey(i)) = CanonicalOffice(Cents(DotCell(table[i].Poste)))

\* C13: rows whose office cells differ only in the decimal separator are
\* filed under the same office key, and the poste "1,10" requested from
\* make_map is the office key of the rows written "1,10" or "1.10".
C13_CommaDot ==
  /\ (Ok /\ prog \in {"genmap3", "gen_mairie"}) =>
       \A i, j \in Rows(table) :
          DotCell(table[i].Poste) = DotCell(table[j].Poste)
             => OfficeOf(RowKey(i)) = OfficeOf(RowKey(j))
  /\ (Injected /\ argv = Some(S_1c10)) =>
       \A i \in Rows(table) :
          DotCell(table[i].Poste) = S_1d10 => poste_key = Some(OfficeOf(RowKey(i)))

\* the alternate float-string form of an office key
AltForm(k) == js_NumberStr(js_parseFloat(k))

Styled == pc = "page" /\ info.feature # 0

\* the offices RESULTS_INDEX holds for the section of the styled feature of
\* the page of generate_map.py, None when it holds none
StyledPostes ==
  LET db == extractDistBureau(geojson_data[info.feature])
  IN IF Truthy(db[1]) /\ Truthy(db[2]) THEN gm_postes(out.index, db[1][1], db[2][1])
     ELSE None

\* the number an office code spells, None when it spells none
OfficeNumber(code) == to_numeric(DotCell(code))

\* C14: a lookup of an office key reports "not found" only when neither the
\* key nor another form of the same office code is there to be found: the
\* winner lookup of the page of generate_map.py, the section styling of
\* the page of genmap3.py, and the label lookup of load_poste_labels.
C14_LookupFallback ==
  /\ (Styled /\ prog = "generate_map" /\ StyledPostes # None /\ info.res.win = None) =>
       /\ poste_key[1] \notin DOMAIN StyledPostes[1]
       /\ AltForm(poste_key[1]) \notin DOMAIN StyledPostes[1]
  /\ (Styled /\ prog = "genmap3" /\ ~info.res.posteData) =>
       IF poste_key = None THEN posteKeys(out.index) = {}
       ELSE /\ poste_key[1] \notin posteKeys(out.index)
            /\ AltForm(poste_key[1]) \notin posteKeys(out.index)
  /\ (pc = "page" /\ prog = "genmap3") =>
       \A code \in DOMAIN poste_labels :
          (poste_labels[code] = code /\ OfficeNumber(code) # None) =>
             \A c \in DOMAIN labels_raw(postes_csv) : OfficeNumber(c) # OfficeNumber(code)

\* a text without any digit: an absent or malformed key
NoDigit(cell) == \A j \in 1..Len(cell) : cell[j] \notin Digit

\* the value of the first bureau property of the styled feature
StyledBureau == FirstPresent(geojson_data[info.feature], BUREAU_KEYS)

\* C17: an absent or malformed district or bureau is treated as "no match"
\* and not as a real key: generate_map.py files no row under it, and its
\* page finds no winner for a feature whose bureau property has no digit.
C17_MalformedNoMatch ==
  /\ (Ok /\ prog = "generate_map") =>
       \A i \in RetainedRows :
          (NoDigit(table[i].District) \/ NoDigit(table[i].Bureau)) =>
             RowKey(i) \notin DOMAIN out.index
  /\ (Styled /\ prog = "generate_map") =>
       ((StyledBureau # None /\ NoDigit(StyledBureau[1])) => info.res.win = None)

\* C19: the boundary data is not mutated: once the results are joined or
\* the page is made, every feature of the GeoJSON has exactly the
\* properties it had when the file was read.
C19_GeoJsonUnchanged ==
  pc \in {"injected", "page"} => geojson_data = geojson_file

\* the two rows of the end-to-end scenario, for a district id
E2ETable(d) ==
  << [BaseRow EXCEPT !.District = d, !.Bureau = S_001, !.Candidat = S_A,
                     !.Parti = S_PartyX, !.Votes = S_30, !.TotalValidVotes = S_50],
     [BaseRow EXCEPT !.District = d, !.Bureau = S_001, !.Candidat = S_B,
                     !.Parti = S_PartyY, !.Votes = S_20, !.TotalValidVotes = S_50] >>

\* the index holds, under office "0" and the section code, the record of
\* the scenario: winner A, PartyX, 30 and the breakdown with 60.00 and 40.00
E2ERecordAt(section) ==
  /\ out.status = "ok"
  /\ <<S_0, section>> \in DOMAIN out.index
  /\ LET r == out.index[<<S_0, section>>]
     IN /\ r.winner_candidate = S_A /\ r.winner_party = S_PartyX /\ r.winner_votes = 30
        /\ Len(r.breakdown) = 2
        /\ r.breakdown[1].candidat = S_A /\ r.breakdown[1].parti = S_PartyX
        /\ r.breakdown[1].votes = 30
        /\ r.breakdown[1].pct # None
        /\ r.breakdown[1].pct[1].num = 60 * r.breakdown[1].pct[1].den
        /\ r.breakdown[2].candidat = S_B /\ r.breakdown[2].parti = S_PartyY
        /\ r.breakdown[2].votes = 20
        /\ r.breakdown[2].pct # None
        /\ r.breakdown[2].pct[1].num = 40 * r.breakdown[2].pct[1].den

S_D1_001 == <<"D", "1", "-", "0", "0", "1">>

\* C20: the rows (D1, 001, 0, A, PartyX, 30) and (D1, 001, 0, B, PartyY, 20)
\* with total_valid 50 give an index whose entry ["0"]["D1-001"] has the
\* winner A, PartyX, 30 and the breakdown [(A, PartyX, 30, 60.00),
\* (B, PartyY, 20, 40.00)].
C20_EndToEnd ==
  (Done /\ prog = "genmap3" /\ table = E2ETable(S_D1)) => E2ERecordAt(S_D1_001)

\* ------------------------------------------------ claims C21 to C28
PoppedUp == pc = "page" /\ popup.feature # 0

\* the offices RESULTS_INDEX holds for the section of the feature whose
\* popup the page of generate_map.py shows, None when it holds none
PoppedPostes ==
  LET db == extractDistBureau(geojson_data[popup.feature])
  IN IF Truthy(db[1]) /\ Truthy(db[2]) THEN gm_postes(out.index, db[1][1], db[2][1])
     ELSE None

\* the index of genmap3.py has no entry for the current office and the
\* section code of the feature
NoEntryFor(props) ==
  poste_key = None \/ <<poste_key[1], sectionKeyFromFeature(props)>> \notin DOMAIN out.index

\* the feature carries the placeholders of a district without winner
HasPlaceholders(feat) ==
  /\ feat.winner_candidate = Some(Some(N_A))
  /\ feat.winner_party = Some(Some(N_A))
  /\ feat.winner_votes = Some(0)

\* C21: a feature whose extracted key has no entry in the results index,
\* or for which no key can be extracted, gets the "no data" state: the
\* neutral fill colour and the "no data" popup text in the two pages, the
\* N/A placeholders in the features of gen_mairie.py.
C21_NoDataState ==
  /\ (Styled /\ prog = "generate_map" /\ StyledPostes = None) =>
       info.res.win = None /\ info.res.color = PARTY_COLORS_OTHER
  /\ (PoppedUp /\ prog = "generate_map" /\ PoppedPostes = None) =>
       popup.res.win = None /\ popup.res.body = "Resultats introuvables"
  /\ (Styled /\ prog = "genmap3" /\ NoEntryFor(geojson_data[info.feature])) =>
       info.res.color = "#eeeeee"
  /\ (PoppedUp /\ prog = "genmap3" /\ NoEntryFor(geojson_data[popup.feature])) =>
       popup.res.body = "Aucune donnee"
  /\ Injected =>
       \A f \in 1..Len(geojson_data) :
          NoResultFor(geojson_file[f]) => HasPlaceholders(geojson_data[f])

\* C22: the results index is immutable once built: after any sequence of
\* stylings, popups, winner computations and changes of the selected
\* office, RESULTS_INDEX holds exactly the entries that were built, the
\* rows of every record in the order they were built in.
C22_IndexImmutable == pc = "page" => RESULTS_INDEX = out.index

C22_Witness ==
  /\ pc = "page" /\ prog = "generate_map"
  /\ info.feature # 0 /\ info.res.win # None
  /\ popup.feature # 0 /\ popup.res.win # None
  /\ \E k \in DOMAIN RESULTS_INDEX : Len(RESULTS_INDEX[k].rows) > 1

\* the properties of the feature whose popup the page shows
PoppedProps == geojson_data[popup.feature]

\* C23: key extraction gives, for the district and for the section
\* independently, the normalized value of the first attribute of the
\* priority list that is present; a value found through a priority list is
\* never discarded for the scan.
C23_PriorityLists ==
  (PoppedUp /\ prog = "generate_map") =>
    /\ FirstPresent(PoppedProps, DISTRICT_KEYS) # None =>
         popup.res.dist = Some(normDigits(FirstPresent(PoppedProps, DISTRICT_KEYS)))
    /\ FirstPresent(PoppedProps, BUREAU_KEYS) # None =>
         popup.res.bure = Some(normBureau3(FirstPresent(PoppedProps, BUREAU_KEYS)))

\* no attribute of the popup's feature is in a priority list: the
\* extraction is the fallback scan
Scanned ==
  /\ PoppedUp /\ prog = "generate_map"
  /\ FirstPresent(PoppedProps, DISTRICT_KEYS) = None
  /\ FirstPresent(PoppedProps, BUREAU_KEYS) = None

\* the digit strings of the attribute values, in attribute order, and the
\* positions of the candidates for district and for section
ScannedDigits == PropDigits(PoppedProps)

DistrictCandidates == {j \in 1..Len(ScannedDigits) : Len(ScannedDigits[j]) <= 3}

SectionCandidates == {j \in 1..Len(ScannedDigits) : Len(ScannedDigits[j]) = 3}

Least(S) == CHOOSE j \in S : \A q \in S : j <= q

\* C24: in the fallback scan the district is the first attribute value
\* whose digit string has length <= 3 (without its leading zeros) and the
\* section is the first whose digit string has length exactly 3; the
\* result is (null, null) only if there is no candidate.
C24_FallbackScan ==
  Scanned =>
    /\ (popup.res.dist = None /\ popup.res.bure = None) =>
         (DistrictCandidates = {} /\ SectionCandidates = {})
    /\ popup.res.dist # None =>
         /\ DistrictCandidates # {}
         /\ popup.res.dist = Some(lstrip0(ScannedDigits[Least(DistrictCandidates)]))
    /\ popup.res.bure # None =>
         /\ SectionCandidates # {}
         /\ popup.res.bure = Some(ScannedDigits[Least(SectionCandidates)])

\* a composite code DDD-SSS: 3 digits, a hyphen, 3 digits
IsFixedWidthCode(c) ==
  /\ Len(c) = 7 /\ c[4] = "-"
  /\ \A j \in {1, 2, 3, 5, 6, 7} : c[j] \in Digit

\* the last (up to) 3 digits of a cell, padded with zeros to 3
Trailing3(cell) ==
  LET d == SelectSeq(cell, LAMBDA c : c \in Digit)
  IN [j \in 1..3 |-> IF Len(d) - 3 + j >= 1 THEN d[Len(d) - 3 + j] ELSE "0"]

\* C25: every section key of the index of genmap3.py has the form DDD-SSS:
\* 3 digits of zero-padded district, a hyphen, and the 3 trailing digits of
\* the cleaned bureau cell, zero-padded.
C25_SectionKeyForm ==
  (Ok /\ prog = "genmap3") =>
    \A i \in Rows(table) :
       /\ IsFixedWidthCode(RowKey(i)[2])
       /\ SubSeq(RowKey(i)[2], 5, 7) = Trailing3(table[i].Bureau)

\* the feature carries the winner the index holds for its district and
\* the joined poste
HasWinner(feat) ==
  LET w == out.index[<<feat.district_id[1], poste_key[1]>>]
  IN /\ feat.winner_candidate = Some(w.Candidat)
     /\ feat.winner_party = Some(w.Parti)
     /\ feat.winner_votes = Some(w.Votes)

\* C27: after inject_results_in_geojson every feature that has the id
\* field carries the winner of the index entry for (district id, poste)
\* when there is one and the placeholders "N/A", "N/A", 0 when there is
\* none, whatever it carried before.
C27_InjectedProps ==
  Injected =>
    \A f \in 1..Len(geojson_data) :
       geojson_file[f].district_id # None =>
          IF NoResultFor(geojson_file[f]) THEN HasPlaceholders(geojson_data[f])
          ELSE HasWinner(geojson_data[f])

\* the offices of RESULTS_INDEX, as the page of the running program
\* collects them
PageOffices ==
  IF prog = "genmap3" THEN posteKeys(RESULTS_INDEX) ELSE collectAllPosteKeys(RESULTS_INDEX)

\* C28: in the pages, whenever the index is not empty, the office key used
\* for colouring (currentPosteKey, WINNER_POSTE_KEY) is an office of
\* RESULTS_INDEX and the dropdown shows that same office, when the page
\* opens and after every change of the dropdown.
C28_OfficeKeyPresent ==
  (pc = "page" /\ DOMAIN RESULTS_INDEX # {}) =>
    /\ poste_key # None
    /\ poste_key[1] \in PageOffices
    /\ select_value = poste_key

\* ------------------------------------------------- the key normalizers


\* the text of the argument of the call, empty for None
ArgText == IF arg = None THEN EMPTY ELSE arg[1]

\* the characters the called normalizer takes for digits
DigitsOfCall ==
  IF fn \in {"norm_digits", "norm_bureau3"} THEN UnicodeDigit ELSE Digit

IsDigitChar(c) == c \in DigitsOfCall

\* the digits of the argument, in order
ArgDigits == SelectSeq(ArgText, IsDigitChar)

Zeros(n) == [j \in 1..n |-> "0"]

\* C15: norm_digits (and normDigits of the page) returns the digits of its
\* input without the leading zeros: only digits, no leading "0", "011"
\* gives "11", "" and "abc" give "", and None gives "" without raising.
C15_NormDigits ==
  fn \in {"norm_digits", "normDigits"} =>
    /\ \A j \in 1..Len(res) : res[j] \in DigitsOfCall
    /\ res = EMPTY \/ res[1] # "0"
    /\ \E n \in 0..Len(ArgDigits) : ArgDigits = Zeros(n) \o res
    /\ arg = Some(S_011) => res = S_11
    /\ arg \in {None, Some(EMPTY), Some(S_abc)} => res = EMPTY

C15_Witness == fn = "norm_digits" /\ arg = Some(S_011) /\ res = S_11

\* C16: for an input with at least one digit, norm_bureau3 (and normBureau3
\* of the page) returns exactly 3 digits: the last (up to) 3 digits of the
\* input, padded with zeros on the left; "Bureau 7" gives "007" and "12345"
\* gives "345".
C16_NormBureau3 ==
  (fn \in {"norm_bureau3", "normBureau3"} /\ ArgDigits # EMPTY) =>
    /\ Len(res) = 3
    /\ \A j \in 1..3 :
          res[j] = IF Len(ArgDigits) - 3 + j >= 1 THEN ArgDigits[Len(ArgDigits) - 3 + j]
                   ELSE "0"
    /\ arg = Some(S_Bureau7) => res = S_007
    /\ arg = Some(S_12345) => res = S_345

C16_Witness == fn = "normBureau3" /\ arg = Some(S_12345) /\ res = S_345

\* C18: a key normalizer applied to a value it produced returns that value.
C18_Idempotent == res2 # None => res2 = Some(res)

C18_Witness == fn = "normDigits" /\ arg = Some(S_001) /\ res2 = Some(S_1)

\* C26: the normalizers of the aggregator and of the page agree: for every
\* raw value norm_digits gives what normDigits gives and norm_bureau3 what
\* normBureau3 gives, so a row and a feature with the same raw district
\* and bureau get the same key.
C26_SameKeys == page_res # None => page_res = Some(res)

====
